---- MODULE Spec2Model ----
(***************************************************************************)
(* Release preparation of a scaffolded project (prepare-release command).  *)
(* Text is a sequence of one-character strings; a file of the project tree *)
(* is a record [st, fmt, body]; package.json's body is its member list.    *)
(***************************************************************************)
EXTENDS Integers, Sequences, FiniteSets, TLC

VARIABLES fs, pc, devcode, publishName, loc, active, trace, report, err,
          occurrences, fsStart, fsScan, runs, renderOk, actionVersions, hist

vars == <<fs, pc, devcode, publishName, loc, active, trace, report, err,
          occurrences, fsStart, fsScan, runs, renderOk, actionVersions, hist>>

\* ------------------------------------------------------------------ bounds
MaxRuns == 2
MaxApply == 2
MaxLines == 2
MaxMembers == 3
MaxWorkflowLines == 3
MaxNames == 3
MaxNameLen == 4

\* ------------------------------------------------------------ text helpers
Range(q) == {q[i] : i \in 1..Len(q)}
NL == "\n"
WhiteSpace == {" ", "\t", NL}

\* the positions of s that hold something else than white space
inked(s) == {i \in 1..Len(s) : s[i] \notin WhiteSpace}

trimStart(s) ==
    IF inked(s) = {} THEN <<>>
    ELSE SubSeq(s, CHOOSE i \in inked(s) : \A j \in inked(s) : i <= j, Len(s))

trimEnd(s) ==
    IF inked(s) = {} THEN <<>>
    ELSE SubSeq(s, 1, CHOOSE i \in inked(s) : \A j \in inked(s) : j <= i)

trim(s) == trimEnd(trimStart(s))

startsWith(s, p) == Len(p) <= Len(s) /\ SubSeq(s, 1, Len(p)) = p

\* position of the first occurrence of p in s (1-based), 0 when there is none
indexOf(s, p) ==
    LET hits == {i \in 1..(Len(s) - Len(p) + 1) : SubSeq(s, i, i + Len(p) - 1) = p}
    IN IF hits = {} THEN 0 ELSE CHOOSE i \in hits : \A j \in hits : i <= j

includes(s, p) == indexOf(s, p) > 0

\* String.prototype.replace with a string pattern: first occurrence only
replace(s, p, r) ==
    LET i == indexOf(s, p)
    IN IF i = 0 THEN s
       ELSE SubSeq(s, 1, i - 1) \o r \o SubSeq(s, i + Len(p), Len(s))

\* s.split('\n'): the pieces between consecutive line feeds
lineFeeds(s) == {i \in 1..Len(s) : s[i] = NL}
nthLineFeed(s, n) ==
    IF n = 0 THEN 0
    ELSE IF n > Cardinality(lineFeeds(s)) THEN Len(s) + 1
    ELSE CHOOSE i \in lineFeeds(s) :
            Cardinality({j \in lineFeeds(s) : j < i}) = n - 1

split(s) ==
    [n \in 1..(Cardinality(lineFeeds(s)) + 1) |->
        SubSeq(s, nthLineFeed(s, n - 1) + 1, nthLineFeed(s, n) - 1)]

\* lines.join('\n')
RECURSIVE joinFrom(_, _)
joinFrom(ls, i) ==
    IF i > Len(ls) THEN <<>>
    ELSE IF i = Len(ls) THEN ls[i]
    ELSE ls[i] \o <<NL>> \o joinFrom(ls, i + 1)

\* the lines joined with a line feed after the last one too
joinTrailingFeed(ls) == joinFrom(ls, 1) \o <<NL>>

join(ls) == joinFrom(ls, 1)

substring(s, a, b) == SubSeq(s, a + 1, IF b < Len(s) THEN b ELSE Len(s))

\* ------------------------------------------------------------ JSON values
\* A JSON member is <<key, kind, c1, ..., cn>>: kind "s" (string), "n"
\* (number, as written) or "l" (true, false, null); c1..cn is its text.
\* A parsed value is <<tag, c1, ..., cn>>, tag in str, num, bool, null.
Undefined == <<"undef">>

memberKey(m) == m[1]
memberKind(m) == m[2]
memberText(m) == SubSeq(m, 3, Len(m))

\* the number a numeric text denotes, in the shortest form JSON.stringify
\* writes: a fraction of zero is dropped
canonNumber(t) ==
    LET n == Len(t)
    IN IF n >= 3 /\ t[n] = "0" /\ t[n - 1] = "." THEN SubSeq(t, 1, n - 2) ELSE t

parseValue(kind, text) ==
    CASE kind = "s" -> <<"str">> \o text
      [] kind = "n" -> <<"num">> \o canonNumber(text)
      [] kind = "l" /\ text = <<"null">> -> <<"null">>
      [] OTHER -> <<"bool">> \o text

stringifyValue(v) ==
    CASE v[1] = "str" -> <<"s">> \o Tail(v)
      [] v[1] = "num" -> <<"n">> \o Tail(v)
      [] v[1] = "null" -> <<"l", "null">>
      [] OTHER -> <<"l">> \o Tail(v)

truthy(v) ==
    CASE v[1] = "str" -> Len(v) > 1
      [] v[1] = "num" -> Tail(v) # <<"0">>
      [] v[1] = "bool" -> Tail(v) = <<"true">>
      [] OTHER -> FALSE

\* ToString of a value used as a search key
toString(v) ==
    IF v = Undefined THEN <<"u", "n", "d", "e", "f", "i", "n", "e", "d">>
    ELSE Tail(v)

\* ----------------------------------------------------------- JS objects
\* An object is the sequence of its own properties <<key, tag, c1..cn>> in
\* property order: canonical array indices ascending, then the other keys
\* in creation order.
IndexKeys == {"0", "1", "2", "3"}
indexValue(k) == CASE k = "0" -> 0 [] k = "1" -> 1 [] k = "2" -> 2 [] OTHER -> 3
isIndex(k) == k \in IndexKeys

objKeys(o) == [i \in 1..Len(o) |-> o[i][1]]
objHas(o, k) == \E i \in 1..Len(o) : o[i][1] = k
objGet(o, k) ==
    IF objHas(o, k) THEN Tail(o[CHOOSE i \in 1..Len(o) : o[i][1] = k])
    ELSE Undefined

objSet(o, k, v) ==
    IF objHas(o, k)
    THEN [i \in 1..Len(o) |-> IF o[i][1] = k THEN <<k>> \o v ELSE o[i]]
    ELSE IF isIndex(k)
    THEN LET before == {i \in 1..Len(o) :
                            isIndex(o[i][1]) /\ indexValue(o[i][1]) < indexValue(k)}
             n == Cardinality(before)
         IN SubSeq(o, 1, n) \o <<(<<k>> \o v)>> \o SubSeq(o, n + 1, Len(o))
    ELSE Append(o, <<k>> \o v)

objDelete(o, k) == SelectSeq(o, LAMBDA e : e[1] # k)

\* JSON.parse of a file body that holds a JSON object: the members are
\* defined as properties from left to right
RECURSIVE parseMembers(_, _)
parseMembers(ms, n) ==
    IF n = 0 THEN <<>>
    ELSE objSet(parseMembers(ms, n - 1), memberKey(ms[n]),
                parseValue(memberKind(ms[n]), memberText(ms[n])))

JSONparse(body) == parseMembers(body, Len(body))

\* JSON.stringify(obj, null, 2): the members in property order
JSONstringify(o) == [i \in 1..Len(o) |-> <<o[i][1]>> \o stringifyValue(Tail(o[i]))]

\* ---------------------------------------------------------- project tree
\* Paths are sequences of segments below the project root.
PackageJsonPath == <<"package.json">>
CodeqlConfigPath == <<".github", "codeql", "codeql-config.yml">>
TagprPath == <<".github", "workflows", "tagpr.yml">>
PublishPath == <<".github", "workflows", "publish.yml">>
ReadmePath == <<"README.md">>
NestedPackageJsonPath == <<"src", "package.json">>
DepPath == <<"node_modules", "dep.js">>
LockPath == <<"bun.lockb">>
GitPath == <<".git", "config">>
DistPath == <<"dist", "index.js">>
DeepDepPath == <<"src", "node_modules", "dep.js">>

\* readdir order of the tree, depth first
PathOrder == <<GitPath, PublishPath, TagprPath, CodeqlConfigPath, ReadmePath,
               LockPath, DistPath, DepPath, PackageJsonPath, NestedPackageJsonPath,
               DeepDepPath>>
Paths == {PathOrder[i] : i \in 1..Len(PathOrder)}

\* st: "absent", "rw", "ro" (readable, not writable), "eacces" (neither),
\* "unlisted" (a readable file in a directory that cannot be listed),
\* "eisdir" (a directory stands at the path)
Absent == [st |-> "absent", fmt |-> "", body |-> <<>>]
File(st, fmt, body) == [st |-> st, fmt |-> fmt, body |-> body]

readFile(f, p) ==
    CASE f[p].st = "absent" -> [ok |-> FALSE, code |-> "ENOENT"]
      [] f[p].st = "eisdir" -> [ok |-> FALSE, code |-> "EISDIR"]
      [] f[p].st = "eacces" -> [ok |-> FALSE, code |-> "EACCES"]
      [] OTHER -> [ok |-> TRUE, code |-> ""]

writeFile(f, p, fmt, body) ==
    CASE f[p].st \in {"absent", "rw"} ->
            [ok |-> TRUE, msg |-> "", fs |-> [f EXCEPT ![p] = File("rw", fmt, body)]]
      [] f[p].st = "eisdir" -> [ok |-> FALSE, msg |-> "EISDIR", fs |-> f]
      [] OTHER -> [ok |-> FALSE, msg |-> "EACCES", fs |-> f]

access(f, p) == f[p].st # "absent"

\* the characters readFile(p, 'utf-8') returns: a JSON document as it is
\* written, one member a line when pretty
RECURSIVE writtenMembers(_, _, _)
writtenMembers(body, n, pretty) ==
    IF n > Len(body) THEN <<>>
    ELSE (IF pretty THEN <<" ", " ">> ELSE <<>>)
             \o <<memberKey(body[n]), ":">> \o memberText(body[n])
             \o (IF n < Len(body) THEN <<",">> ELSE <<>>)
             \o (IF pretty THEN <<NL>> ELSE <<>>)
             \o writtenMembers(body, n + 1, pretty)

utf8(file) ==
    CASE file.fmt = "compact" -> <<"{">> \o writtenMembers(file.body, 1, FALSE) \o <<"}">>
      [] file.fmt = "pretty" ->
            <<"{", NL>> \o writtenMembers(file.body, 1, TRUE) \o <<"}", NL>>
      [] file.fmt = "null" -> <<"null">>
      [] OTHER -> file.body

\* the file holds a JSON document that JSON.parse turns into an object
parsedText(file) == file.st \in {"rw", "ro"} /\ file.fmt \in {"compact", "pretty"}

Throw(f, m) == [ok |-> FALSE, msg |-> m, fs |-> f]
Return(f) == [ok |-> TRUE, msg |-> "", fs |-> f]

\* ------------------------------------------------------------- templates
\* A workflow text is a sequence of symbols: white space and line feeds one
\* character each, every other symbol one fragment of a workflow line.
EnvAmbient == "GITHUB_TOKEN: ${{ secrets.GITHUB_TOKEN }}"
EnvNamed == "GITHUB_TOKEN: ${{ secrets.PAT_FOR_TAGPR }}"
TokenAmbient == "token: ${{ secrets.GITHUB_TOKEN }}"
TokenNamed == "token: ${{ secrets.PAT_FOR_TAGPR }}"
CheckoutV4 == "uses: actions/checkout@v4"
CheckoutV6 == "uses: actions/checkout@v6"
Checkouts == {CheckoutV4, CheckoutV6}
With == "with:"
TagprStep == "uses: Songmu/tagpr@v1"
TodoAddToken == "# TODO: After replace-devcode, add token: ${{ secrets.PAT_FOR_TAGPR }}"
TodoUsePat == "# TODO: After replace-devcode, use PAT_FOR_TAGPR instead"

\* the symbols that hold `secrets.GITHUB_TOKEN`, and those that hold
\* `TODO: After replace-devcode`
AmbientRefs == {EnvAmbient, TokenAmbient}
NamedRefs == {EnvNamed, TokenNamed}
TodoMarkers == {TodoAddToken, TodoUsePat}

\* the versions getLatestActionVersions returns
ActionVersionSets == {[checkout |-> "v4"], [checkout |-> "v6"]}
LatestActionVersions == [checkout |-> "v6"]
checkoutAt(versions) == IF versions.checkout = "v4" THEN CheckoutV4 ELSE CheckoutV6

\* Renderings of the workflow templates.
TagprDevText(versions) ==
    <<" ", checkoutAt(versions), NL, " ", TodoAddToken, NL, NL,
      " ", TagprStep, NL, " ", EnvAmbient, NL, " ", TodoUsePat, NL>>
TagprReleaseText(versions) ==
    <<" ", checkoutAt(versions), NL, " ", With, NL, " ", " ", " ", TokenNamed, NL, NL,
      " ", TagprStep, NL, " ", EnvNamed, NL>>
PublishText(versions) == <<" ", checkoutAt(versions), NL, " ", "npm publish", NL>>

loadTemplate(templatePath, isDevcode, versions, ok) ==
    IF ~ok THEN [ok |-> FALSE, text |-> <<>>]
    ELSE [ok |-> TRUE,
          text |-> CASE templatePath = "common/workflows/publish.yml.ejs" ->
                            PublishText(versions)
                     [] isDevcode -> TagprDevText(versions)
                     [] OTHER -> TagprReleaseText(versions)]

\* ------------------------------------------------------ placeholder detection
NotFound == "package.json not found. Are you in a project directory?"
NotDevcode == "This project is not a devcode project (missing \"private\": true in package.json)"

\* the check of the private flag written as a test for its presence
detectDevcodePresenceOnly(f) ==
    LET r == readFile(f, PackageJsonPath)
        file == f[PackageJsonPath]
    IN IF ~r.ok
       THEN [ok |-> FALSE, val |-> Undefined,
             err |-> IF r.code = "ENOENT" THEN NotFound ELSE r.code]
       ELSE IF file.fmt = "invalid"
       THEN [ok |-> FALSE, val |-> Undefined, err |-> "SyntaxError"]
       ELSE IF file.fmt = "null"
       THEN [ok |-> FALSE, val |-> Undefined, err |-> "TypeError"]
       ELSE LET pkg == JSONparse(file.body)
            IN IF ~objHas(pkg, "private")
               THEN [ok |-> FALSE, val |-> Undefined, err |-> NotDevcode]
               ELSE [ok |-> TRUE, val |-> objGet(pkg, "name"), err |-> ""]

\* every failed read reported as a missing package.json
detectDevcodeAnyReadError(f) ==
    LET r == readFile(f, PackageJsonPath)
        file == f[PackageJsonPath]
    IN IF ~r.ok
       THEN [ok |-> FALSE, val |-> Undefined, err |-> NotFound]
       ELSE IF file.fmt = "invalid"
       THEN [ok |-> FALSE, val |-> Undefined, err |-> "SyntaxError"]
       ELSE IF file.fmt = "null"
       THEN [ok |-> FALSE, val |-> Undefined, err |-> "TypeError"]
       ELSE LET pkg == JSONparse(file.body)
            IN IF ~truthy(objGet(pkg, "private"))
               THEN [ok |-> FALSE, val |-> Undefined, err |-> NotDevcode]
               ELSE [ok |-> TRUE, val |-> objGet(pkg, "name"), err |-> ""]

detectDevcode(f) ==
    LET r == readFile(f, PackageJsonPath)
        file == f[PackageJsonPath]
    IN IF ~r.ok
       THEN [ok |-> FALSE, val |-> Undefined,
             err |-> IF r.code = "ENOENT" THEN NotFound ELSE r.code]
       ELSE IF file.fmt = "invalid"
       THEN [ok |-> FALSE, val |-> Undefined, err |-> "SyntaxError"]
       ELSE IF file.fmt = "null"
       THEN [ok |-> FALSE, val |-> Undefined, err |-> "TypeError"]
       ELSE LET pkg == JSONparse(file.body)
            IN IF ~truthy(objGet(pkg, "private"))
               THEN [ok |-> FALSE, val |-> Undefined, err |-> NotDevcode]
               ELSE [ok |-> TRUE, val |-> objGet(pkg, "name"), err |-> ""]

\* ------------------------------------------------------ rewrite strategies
\* the flag cleared instead of deleted
replaceInPackageJsonPrivateFalse(f, dev, pub) ==
    LET r == readFile(f, PackageJsonPath)
        file == f[PackageJsonPath]
    IN IF ~r.ok THEN Throw(f, r.code)
       ELSE IF file.fmt = "invalid" THEN Throw(f, "SyntaxError")
       ELSE IF file.fmt = "null" THEN Throw(f, "TypeError")
       ELSE LET pkg == objSet(objSet(JSONparse(file.body), "name", <<"str">> \o pub),
                              "private", <<"bool", "false">>)
            IN writeFile(f, PackageJsonPath, "pretty", JSONstringify(pkg))

\* the name rewritten by substitution of the devcode instead of assignment
replaceInPackageJsonSubstitute(f, dev, pub) ==
    LET r == readFile(f, PackageJsonPath)
        file == f[PackageJsonPath]
    IN IF ~r.ok THEN Throw(f, r.code)
       ELSE IF file.fmt = "invalid" THEN Throw(f, "SyntaxError")
       ELSE IF file.fmt = "null" THEN Throw(f, "TypeError")
       ELSE LET old == JSONparse(file.body)
                pkg == objDelete(
                          objSet(old, "name",
                                 <<"str">> \o replace(toString(objGet(old, "name")),
                                                      toString(dev), pub)),
                          "private")
            IN writeFile(f, PackageJsonPath, "pretty", JSONstringify(pkg))

\* the name assigned and the private flag left in the document
replaceInPackageJsonKeepPrivate(f, dev, pub) ==
    LET r == readFile(f, PackageJsonPath)
        file == f[PackageJsonPath]
    IN IF ~r.ok THEN Throw(f, r.code)
       ELSE IF file.fmt = "invalid" THEN Throw(f, "SyntaxError")
       ELSE IF file.fmt = "null" THEN Throw(f, "TypeError")
       ELSE LET pkg == objSet(JSONparse(file.body), "name", <<"str">> \o pub)
            IN writeFile(f, PackageJsonPath, "pretty", JSONstringify(pkg))

replaceInPackageJson(f, dev, pub) ==
    LET r == readFile(f, PackageJsonPath)
        file == f[PackageJsonPath]
    IN IF ~r.ok THEN Throw(f, r.code)
       ELSE IF file.fmt = "invalid" THEN Throw(f, "SyntaxError")
       ELSE IF file.fmt = "null" THEN Throw(f, "TypeError")
       ELSE LET pkg == objDelete(objSet(JSONparse(file.body), "name", <<"str">> \o pub),
                                 "private")
            IN writeFile(f, PackageJsonPath, "pretty", JSONstringify(pkg))

\* the value the promise of replaceInPackageJson resolves to
\* the name the document carried handed back
replaceInPackageJsonReturnOldName(f, dev, pub) ==
    IF parsedText(f[PackageJsonPath]) THEN objGet(JSONparse(f[PackageJsonPath].body), "name")
    ELSE Undefined

\* Promise<void>: the function ends without a return statement
replaceInPackageJsonReturn(f, dev, pub) == Undefined

\* updatePackageJson of commands/prepare-release.ts: the same rewrite, and
\* the name read before the assignment is returned
updatePackageJson(f, pub) ==
    LET r == readFile(f, PackageJsonPath)
        file == f[PackageJsonPath]
    IN IF ~r.ok THEN Throw(f, r.code) @@ [val |-> Undefined]
       ELSE IF file.fmt = "invalid" THEN Throw(f, "SyntaxError") @@ [val |-> Undefined]
       ELSE IF file.fmt = "null" THEN Throw(f, "TypeError") @@ [val |-> Undefined]
       ELSE LET old == JSONparse(file.body)
                pkg == objDelete(objSet(old, "name", <<"str">> \o pub), "private")
                w == writeFile(f, PackageJsonPath, "pretty", JSONstringify(pkg))
            IN w @@ [val |-> IF w.ok THEN objGet(old, "name") ELSE Undefined]

NameKey == <<"n", "a", "m", "e", ":">>

\* index of the first line whose left-trimmed content starts with name:
firstNameLine(lines) ==
    LET hits == {i \in 1..Len(lines) : startsWith(trimStart(lines[i]), NameKey)}
    IN IF hits = {} THEN 0 ELSE CHOOSE i \in hits : \A j \in hits : i <= j

\* the devcode replaced at its first occurrence in the whole file
replaceInCodeqlConfigWholeFile(f, dev, pub) ==
    LET r == readFile(f, CodeqlConfigPath)
    IN IF ~r.ok
       THEN IF r.code = "ENOENT" THEN Return(f) ELSE Throw(f, r.code)
       ELSE writeFile(f, CodeqlConfigPath, "text",
                      replace(f[CodeqlConfigPath].body, toString(dev), pub))

\* the missing configuration raised as an error
replaceInCodeqlConfigThrowAbsent(f, dev, pub) ==
    LET r == readFile(f, CodeqlConfigPath)
    IN IF ~r.ok THEN Throw(f, r.code)
       ELSE LET lines == split(f[CodeqlConfigPath].body)
                n == firstNameLine(lines)
                out == [i \in 1..Len(lines) |->
                           IF i = n THEN replace(lines[i], toString(dev), pub)
                           ELSE lines[i]]
            IN writeFile(f, CodeqlConfigPath, "text", join(out))

replaceInCodeqlConfig(f, dev, pub) ==
    LET r == readFile(f, CodeqlConfigPath)
    IN IF ~r.ok
       THEN IF r.code = "ENOENT" THEN Return(f) ELSE Throw(f, r.code)
       ELSE LET lines == split(f[CodeqlConfigPath].body)
                n == firstNameLine(lines)
                out == [i \in 1..Len(lines) |->
                           IF i = n THEN replace(lines[i], toString(dev), pub)
                           ELSE lines[i]]
            IN writeFile(f, CodeqlConfigPath, "text", join(out))

\* ---- the rewrite of tagpr.yml by patterns (commands/prepare-release.ts)
\* first position from i on that holds no white space (Len(s) + 1 if none)
skipSpace(s, i) ==
    CHOOSE j \in i..(Len(s) + 1) :
        /\ j = Len(s) + 1 \/ s[j] \notin WhiteSpace
        /\ \A k \in i..(j - 1) : s[k] \in WhiteSpace

\* position of the first line feed from i on, 0 when there is none
nextLineFeed(s, i) ==
    LET lf == {k \in i..Len(s) : s[k] = NL}
    IN IF lf = {} THEN 0 ELSE CHOOSE k \in lf : \A m \in lf : k <= m

\* the credential of the env entry replaced at its first occurrence only
replaceEnvCredentialFirstOnly(s) ==
    LET hits == {i \in 1..Len(s) : s[i] = EnvAmbient}
    IN [i \in 1..Len(s) |->
           IF i \in hits /\ \A j \in hits : i <= j THEN EnvNamed ELSE s[i]]

\* /GITHUB_TOKEN: \$\{\{ secrets\.GITHUB_TOKEN \}\}/g
replaceEnvCredential(s) ==
    [i \in 1..Len(s) |-> IF s[i] = EnvAmbient THEN EnvNamed ELSE s[i]]

\* /(uses: actions\/checkout@v\d+)\n(\s*)# TODO: After replace-devcode, add token: .../g
\* replaced by '$1\n$2with:\n$2  token: ${{ secrets.PAT_FOR_TAGPR }}'
RECURSIVE addCheckoutToken(_, _)
addCheckoutToken(s, i) ==
    IF i > Len(s) THEN <<>>
    ELSE LET j == skipSpace(s, i + 2)
         IN IF /\ s[i] \in Checkouts
               /\ i + 1 <= Len(s) /\ s[i + 1] = NL
               /\ j <= Len(s) /\ s[j] = TodoAddToken
            THEN <<s[i], NL>> \o SubSeq(s, i + 2, j - 1) \o <<With, NL>>
                     \o SubSeq(s, i + 2, j - 1) \o <<" ", " ", TokenNamed>>
                     \o addCheckoutToken(s, j + 1)
            ELSE <<s[i]>> \o addCheckoutToken(s, i + 1)

\* /\s*# TODO: After replace-devcode.*\n/g replaced by '\n'
RECURSIVE removeTodoComments(_, _)
removeTodoComments(s, i) ==
    IF i > Len(s) THEN <<>>
    ELSE LET j == skipSpace(s, i)
             k == nextLineFeed(s, j)
         IN IF j <= Len(s) /\ s[j] \in TodoMarkers /\ k > 0
            THEN <<NL>> \o removeTodoComments(s, k + 1)
            ELSE <<s[i]>> \o removeTodoComments(s, i + 1)

\* /\n{3,}/g replaced by '\n\n'
RECURSIVE squeezeBlankLines(_, _)
squeezeBlankLines(s, i) ==
    IF i > Len(s) THEN <<>>
    ELSE IF s[i] # NL THEN <<s[i]>> \o squeezeBlankLines(s, i + 1)
    ELSE LET j == CHOOSE m \in i..(Len(s) + 1) :
                      /\ m = Len(s) + 1 \/ s[m] # NL
                      /\ \A k \in i..(m - 1) : s[k] = NL
         IN (IF j - i >= 3 THEN <<NL, NL>> ELSE SubSeq(s, i, j - 1))
                \o squeezeBlankLines(s, j)

updateTagprWorkflow(f) ==
    LET r == readFile(f, TagprPath)
    IN IF ~r.ok
       THEN IF r.code = "ENOENT" THEN Return(f) ELSE Throw(f, r.code)
       ELSE LET c1 == replaceEnvCredential(f[TagprPath].body)
                c2 == addCheckoutToken(c1, 1)
                c3 == removeTodoComments(c2, 1)
                c4 == squeezeBlankLines(c3, 1)
            IN writeFile(f, TagprPath, "text", c4)

\* the workflow patched by the patterns instead of rendered again
replaceInTagprWorkflowPatch(f, dev, pub, versions, ok) == updateTagprWorkflow(f)

\* the regeneration without the check that the workflow exists
replaceInTagprWorkflowNoAccess(f, dev, pub, versions, ok) ==
    LET t == loadTemplate("common/workflows/tagpr.yml.ejs", FALSE, versions, ok)
    IN IF ~t.ok THEN Throw(f, "TemplateError")
       ELSE writeFile(f, TagprPath, "text", t.text)

replaceInTagprWorkflow(f, dev, pub, versions, ok) ==
    IF ~access(f, TagprPath) THEN Return(f)
    ELSE LET t == loadTemplate("common/workflows/tagpr.yml.ejs", FALSE, versions, ok)
         IN IF ~t.ok THEN Throw(f, "TemplateError")
            ELSE writeFile(f, TagprPath, "text", t.text)

generatePublishWorkflow(f, versions, ok) ==
    LET t == loadTemplate("common/workflows/publish.yml.ejs", FALSE, versions, ok)
    IN IF ~t.ok THEN Throw(f, "TemplateError")
       ELSE writeFile(f, PublishPath, "text", t.text)

\* the registry without the entry of the codeql configuration
MANAGED_LOCATIONS_NoCodeql ==
    << [file |-> PackageJsonPath, replace |-> "replaceInPackageJson"],
       [file |-> TagprPath, replace |-> "replaceInTagprWorkflow"] >>

MANAGED_LOCATIONS ==
    << [file |-> PackageJsonPath, replace |-> "replaceInPackageJson"],
       [file |-> CodeqlConfigPath, replace |-> "replaceInCodeqlConfig"],
       [file |-> TagprPath, replace |-> "replaceInTagprWorkflow"] >>

\* location.replace(targetDir, devcode, publishName)
applyLocation(i, f, dev, pub, versions, ok) ==
    CASE MANAGED_LOCATIONS[i].replace = "replaceInPackageJson" ->
            replaceInPackageJson(f, dev, pub)
      [] MANAGED_LOCATIONS[i].replace = "replaceInCodeqlConfig" ->
            replaceInCodeqlConfig(f, dev, pub)
      [] OTHER -> replaceInTagprWorkflow(f, dev, pub, versions, ok)

\* ------------------------------------------------------------------ scanner
ExcludeDirs == {"node_modules", ".git", "dist", "bun.lockb"}
SnippetLength == 80

isUnder(p, dir) == Len(p) > Len(dir) /\ SubSeq(p, 1, Len(dir)) = dir

\* s without the repetitions of its elements
distinct(s) ==
    LET firsts == SelectSeq([i \in 1..Len(s) |-> i],
                            LAMBDA i : \A j \in 1..(i - 1) : s[j] # s[i])
    IN [k \in 1..Len(firsts) |-> s[firsts[k]]]

\* readdir(dir): the names of the entries of dir, in directory order
readdir(f, dir) ==
    LET below == SelectSeq(PathOrder, LAMBDA p : isUnder(p, dir) /\ f[p].st # "absent")
    IN distinct([i \in 1..Len(below) |-> below[i][Len(dir) + 1]])

isDirectory(f, p) ==
    (p \in Paths /\ f[p].st = "eisdir") \/ \E q \in Paths : isUnder(q, p) /\ f[q].st # "absent"

RECURSIVE findFilesRecursive(_, _)
RECURSIVE walkEntries(_, _, _, _)
\* for (const entry of entries)
walkEntries(f, dir, entries, n) ==
    IF n > Len(entries) THEN <<>>
    ELSE LET name == entries[n]
             fullPath == Append(dir, name)
             here == IF isDirectory(f, fullPath)
                     THEN IF name \notin ExcludeDirs
                          THEN findFilesRecursive(f, fullPath) ELSE <<>>
                     ELSE <<fullPath>>
         IN here \o walkEntries(f, dir, entries, n + 1)

\* fs.readdir(dir) throws: an entry of dir says the directory is not listable
readdirThrows(f, dir) ==
    \E p \in Paths : isUnder(p, dir) /\ Len(p) = Len(dir) + 1 /\ f[p].st = "unlisted"

findFilesRecursive(f, dir) ==
    IF readdirThrows(f, dir) THEN <<>> ELSE walkEntries(f, dir, readdir(f, dir), 1)

\* the records of one file: the file scanned whether it is managed or not
\* the lines that hold the placeholder once more than a record
scanFileEveryOccurrence(f, p, dev) ==
    IF ~readFile(f, p).ok THEN <<>>
    ELSE LET lines == split(utf8(f[p]))
             hits == SelectSeq([i \in 1..Len(lines) |-> i],
                               LAMBDA i : includes(lines[i], toString(dev)))
         IN [k \in 1..(2 * Len(hits)) |->
                [file |-> p, line |-> hits[(k + 1) \div 2],
                 content |-> substring(trim(lines[hits[(k + 1) \div 2]]), 0, SnippetLength)]]

scanFile(f, p, dev) ==
    IF ~readFile(f, p).ok THEN <<>>
    ELSE LET lines == split(utf8(f[p]))
             hits == SelectSeq([i \in 1..Len(lines) |-> i],
                               LAMBDA i : includes(lines[i], toString(dev)))
         IN [k \in 1..Len(hits) |->
                [file |-> p, line |-> hits[k],
                 content |-> substring(trim(lines[hits[k]]), 0, SnippetLength)]]

\* the scanner without its check of the managed files
managedFilesNone == {}

managedFiles == {MANAGED_LOCATIONS[i].file : i \in 1..Len(MANAGED_LOCATIONS)}

\* the catch around the loop over the files: the first file that cannot be
\* read ends the scan
RECURSIVE scanFilesStopAtError(_, _, _, _)
scanFilesStopAtError(f, files, n, dev) ==
    IF n > Len(files) THEN <<>>
    ELSE IF files[n] \in managedFiles THEN scanFilesStopAtError(f, files, n + 1, dev)
    ELSE IF ~readFile(f, files[n]).ok THEN <<>>
    ELSE scanFile(f, files[n], dev) \o scanFilesStopAtError(f, files, n + 1, dev)

RECURSIVE scanFiles(_, _, _, _)
scanFiles(f, files, n, dev) ==
    IF n > Len(files) THEN <<>>
    ELSE LET here == IF files[n] \in managedFiles THEN <<>> ELSE scanFile(f, files[n], dev)
         IN here \o scanFiles(f, files, n + 1, dev)

findUnmanagedOccurrences(f, dev) == scanFiles(f, findFilesRecursive(f, <<>>), 1, dev)

\* the files findUnmanagedOccurrences passes to fs.readFile
scanReads(f) == SelectSeq(findFilesRecursive(f, <<>>), LAMBDA p : p \notin managedFiles)

\* a scanner that replaces what it finds
afterScanRewrite(f, dev) ==
    [p \in Paths |->
        IF p \in Range(scanReads(f)) /\ f[p].st = "rw" /\ scanFile(f, p, dev) # <<>>
        THEN File("rw", "text", replace(utf8(f[p]), toString(dev), <<"t">>))
        ELSE f[p]]

\* the tree findUnmanagedOccurrences leaves: fs.readdir and fs.readFile are
\* its only calls
afterScan(f, dev) == f

\* ------------------------------------------------------------------ inputs
Placeholder == <<"d">>
Targets == {<<"t">>, <<"s", "/", "d">>}

NameMember == <<"name", "s", "d">>
PrivateTrue == <<"private", "l", "true">>
PrivateFalse == <<"private", "l", "false">>
VersionMember == <<"version", "s", "0", ".", "1">>

PrivateZero == <<"private", "n", "0">>

RunDocs == { <<NameMember, VersionMember, PrivateTrue>>,
             <<NameMember, VersionMember>>,
             <<NameMember, PrivateFalse>>,
             <<PrivateZero, NameMember>>,
             <<PrivateTrue, VersionMember>> }

RunPackageFiles ==
    {File(st, "compact", d) : st \in {"rw", "ro"}, d \in RunDocs}
        \cup {Absent, File("eisdir", "", <<>>),
              File("rw", "invalid", <<>>), File("rw", "null", <<>>)}

LinePool == { NameKey \o <<" ", "d">>,
              <<" ">> \o NameKey \o <<" ", "d", " ", "d">>,
              <<"d">>,
              <<"x", ":", " ", "d">>,
              <<"-", " ">> \o NameKey \o <<" ", "d">>,
              <<>> }

CodeqlTexts(n) == {join(ls) : ls \in UNION {[1..k -> LinePool] : k \in 1..n}}

RunCodeqlFiles ==
    {File("rw", "text", t) : t \in CodeqlTexts(1)}
        \cup {Absent, File("eisdir", "", <<>>), File("ro", "text", NameKey \o <<" ", "d">>)}

RunTagprFiles ==
    {Absent, File("rw", "text", TagprDevText(LatestActionVersions)),
     File("ro", "text", TagprDevText(LatestActionVersions)),
     File("eisdir", "", <<>>)}

RunPublishFiles == {Absent, File("rw", "text", <<"o", "l", "d">>), File("ro", "text", <<>>)}

\* the files no managed location covers
BareTree == [p \in Paths |-> Absent]
FullTree ==
    [p \in Paths |->
        CASE p = ReadmePath -> File("rw", "text", <<"s", "e", "e", " ", "d", NL, "x", NL, "d">>)
          [] p = NestedPackageJsonPath -> File("rw", "text", <<"{", "d", "}">>)
          [] p = DepPath -> File("rw", "text", <<"d">>)
          [] p = LockPath -> File("rw", "text", <<"d">>)
          [] OTHER -> Absent]
OtherTrees == {BareTree, FullTree}

Tree(base, pkg, codeql, tagpr, publish) ==
    [base EXCEPT ![PackageJsonPath] = pkg, ![CodeqlConfigPath] = codeql,
                 ![TagprPath] = tagpr, ![PublishPath] = publish]

\* ------------------------------------------------------------ orchestrator
\* the order of the statements of prepareRelease
\* detection placed after the managed rewrites
PipelineDetectLate == <<"managed", "detect", "publish", "scan", "report", "done">>

\* the scan placed before the generation of the publish workflow
PipelineScanEarly == <<"detect", "managed", "scan", "publish", "report", "done">>

Pipeline == <<"detect", "managed", "publish", "scan", "report", "done">>

after(step) == Pipeline[(CHOOSE i \in 1..Len(Pipeline) : Pipeline[i] = step) + 1]

\* a step is awaited before the next one is started
\* the strategies started without awaiting the previous one
mayStartNoAwait(act) == TRUE

mayStart(act) == act = {}

\* try { await location.replace(...) } catch (error) { console.log(warning) }
\* the managed loop without its catch: the error leaves prepareRelease
catchLocationErrorRethrow(r) ==
    [kind |-> IF r.ok THEN "ok" ELSE "warn", msg |-> r.msg, rethrow |-> ~r.ok]

\* the publish step without its catch
catchPublishErrorRethrow(r) ==
    [kind |-> IF r.ok THEN "ok" ELSE "warn", msg |-> r.msg, rethrow |-> ~r.ok]

\* the catch printing the line of a success
catchLocationErrorAsSuccess(r) == [kind |-> "ok", msg |-> "", rethrow |-> FALSE]

catchLocationError(r) ==
    [kind |-> IF r.ok THEN "ok" ELSE "warn", msg |-> r.msg, rethrow |-> FALSE]

\* try { await generatePublishWorkflow(...) } catch (error) { console.log(warning) }
catchPublishError(r) ==
    [kind |-> IF r.ok THEN "ok" ELSE "warn", msg |-> r.msg, rethrow |-> FALSE]

\* the placeholder read again from package.json at every use
devcodeArgumentReread(f, dev) == detectDevcode(f).val

\* the placeholder handed to a strategy and to the scanner: the constant
\* devcode of prepareRelease
devcodeArgument(f, dev) == dev

\* console lines of the end of prepareRelease
CompleteLine == "Release preparation complete!"
ReminderLine == "Action required: Set up PAT_FOR_TAGPR secret"
RenamedLine == "Package renamed"
PrivateRemovedLine == "Private flag removed"
WorkflowsLine == "Workflows updated to use PAT_FOR_TAGPR"
PublishLine == "publish.yml generated for npm OIDC publishing"

\* the lines printed after the occurrences
summary == <<CompleteLine, RenamedLine, PrivateRemovedLine, WorkflowsLine, PublishLine,
             ReminderLine>>

Outcome(r) == <<IF r.ok THEN "returned" ELSE "threw">>

Event(ev, step, args) == [ev |-> ev, step |-> step, args |-> args]

Init ==
    /\ fs \in {Tree(b, p, c, t, w) : b \in OtherTrees, p \in RunPackageFiles,
                    c \in RunCodeqlFiles, t \in RunTagprFiles, w \in RunPublishFiles}
    /\ renderOk \in BOOLEAN
    /\ actionVersions = LatestActionVersions
    /\ pc = "start"
    /\ devcode = Undefined
    /\ publishName = <<>>
    /\ loc = 1
    /\ active = {}
    /\ trace = <<>>
    /\ report = <<>>
    /\ err = ""
    /\ occurrences = <<>>
    /\ fsStart = fs
    /\ fsScan = fs
    /\ runs = 1
    /\ hist = <<>>

Start ==
    /\ pc = "start"
    /\ \E t \in Targets : publishName' = t
    /\ pc' = Pipeline[1]
    /\ fsStart' = fs
    /\ UNCHANGED <<fs, devcode, loc, active, trace, report, err, occurrences,
                   fsScan, runs, renderOk, actionVersions, hist>>

DetectPlaceholder ==
    /\ pc = "detect"
    /\ LET r == detectDevcode(fs)
       IN /\ devcode' = r.val
          /\ err' = r.err
          /\ pc' = IF r.ok THEN after("detect") ELSE "aborted"
    /\ trace' = Append(trace, Event("detect", <<"detect">>, <<>>))
    /\ UNCHANGED <<fs, publishName, loc, active, report, occurrences, fsStart,
                   fsScan, runs, renderOk, actionVersions, hist>>

\* the loop has a location left and the previous strategy has settled
canStartReplace ==
    pc = "managed" /\ loc <= Len(MANAGED_LOCATIONS) /\ mayStart(active)

\* a strategy is in flight: its promise settles
canFinishReplace == pc = "managed" /\ active # {}

canStartPublish == pc = "publish" /\ mayStart(active) /\ PublishPath \notin active

canFinishPublish == pc = "publish" /\ PublishPath \in active

StartReplace ==
    /\ canStartReplace
    /\ active' = active \cup {loc}
    /\ loc' = loc + 1
    /\ trace' = Append(trace, Event("start", MANAGED_LOCATIONS[loc].file,
                                    <<devcodeArgument(fs, devcode), publishName>>))
    /\ UNCHANGED <<fs, pc, devcode, publishName, report, err, occurrences,
                   fsStart, fsScan, runs, renderOk, actionVersions, hist>>

FinishReplace ==
    /\ canFinishReplace
    /\ \E i \in active :
          LET r == applyLocation(i, fs, devcodeArgument(fs, devcode), publishName,
                                 actionVersions, renderOk)
              c == catchLocationError(r)
          IN /\ fs' = r.fs
             /\ report' = IF c.rethrow THEN report
                           ELSE Append(report,
                                  [file |-> MANAGED_LOCATIONS[i].file,
                                   kind |-> c.kind, msg |-> c.msg])
             /\ active' = active \ {i}
             /\ trace' = Append(trace,
                            Event("end", MANAGED_LOCATIONS[i].file, Outcome(r)))
             /\ err' = IF c.rethrow THEN r.msg ELSE err
             /\ pc' = IF c.rethrow THEN "aborted"
                      ELSE IF loc > Len(MANAGED_LOCATIONS) /\ active' = {}
                      THEN after("managed") ELSE pc
    /\ UNCHANGED <<devcode, publishName, loc, occurrences, fsStart, fsScan,
                   runs, renderOk, actionVersions, hist>>

StartPublish ==
    /\ canStartPublish
    /\ active' = active \cup {PublishPath}
    /\ trace' = Append(trace, Event("start", PublishPath, <<>>))
    /\ UNCHANGED <<fs, pc, devcode, publishName, loc, report, err, occurrences,
                   fsStart, fsScan, runs, renderOk, actionVersions, hist>>

FinishPublish ==
    /\ canFinishPublish
    /\ LET r == generatePublishWorkflow(fs, actionVersions, renderOk)
           c == catchPublishError(r)
       IN /\ fs' = r.fs
          /\ report' = IF c.rethrow THEN report
                        ELSE Append(report,
                               [file |-> PublishPath, kind |-> c.kind, msg |-> c.msg])
          /\ trace' = Append(trace, Event("end", PublishPath, Outcome(r)))
          /\ err' = IF c.rethrow THEN r.msg ELSE err
          /\ pc' = IF c.rethrow THEN "aborted" ELSE after("publish")
    /\ active' = active \ {PublishPath}
    /\ UNCHANGED <<devcode, publishName, loc, occurrences, fsStart, fsScan,
                   runs, renderOk, actionVersions, hist>>

ScanUnmanaged ==
    /\ pc = "scan"
    /\ fsScan' = fs
    /\ fs' = afterScan(fs, devcodeArgument(fs, devcode))
    /\ occurrences' = findUnmanagedOccurrences(fs, devcodeArgument(fs, devcode))
    /\ trace' = Append(trace, Event("scan", <<"scan">>,
                                    findUnmanagedOccurrences(fs, devcodeArgument(fs, devcode))))
    /\ pc' = after("scan")
    /\ UNCHANGED <<devcode, publishName, loc, active, report, err, fsStart,
                   runs, renderOk, actionVersions, hist>>

Report ==
    /\ pc = "report"
    /\ trace' = Append(trace, Event("report", <<"report">>, summary))
    /\ pc' = after("report")
    /\ UNCHANGED <<fs, devcode, publishName, loc, active, report, err,
                   occurrences, fsStart, fsScan, runs, renderOk,
                   actionVersions, hist>>

\* the command is invoked again on the same tree
NewRun ==
    /\ pc \in {"done", "aborted"}
    /\ runs < MaxRuns
    /\ runs' = runs + 1
    /\ pc' = "start"
    /\ devcode' = Undefined
    /\ publishName' = <<>>
    /\ loc' = 1
    /\ active' = {}
    /\ trace' = <<>>
    /\ report' = <<>>
    /\ err' = ""
    /\ occurrences' = <<>>
    /\ fsStart' = fs
    /\ fsScan' = fs
    /\ hist' = Append(hist, [ended |-> pc, report |-> report])
    /\ UNCHANGED <<fs, renderOk, actionVersions>>

Next ==
    \/ Start
    \/ DetectPlaceholder
    \/ StartReplace
    \/ FinishReplace
    \/ StartPublish
    \/ FinishPublish
    \/ ScanUnmanaged
    \/ Report
    \/ NewRun

Spec == Init /\ [][Next]_vars

\* ------------------------------------------------- strategies on their own
\* Each rewrite strategy applied to a tree, the same one up to MaxApply times
\* in a row; hist keeps the tree before and after every application.
MemberPool == {NameMember, PrivateTrue, PrivateFalse, VersionMember,
               <<"2", "s", "x">>, <<"1", "n", "1", ".", "0">>}

Docs(n) ==
    {d \in UNION {[1..k -> MemberPool] : k \in 0..n} :
        \A i, j \in 1..Len(d) : i # j => d[i][1] # d[j][1]}

UnitPackageFiles ==
    {File("rw", fmt, d) : fmt \in {"compact", "pretty"}, d \in Docs(MaxMembers)}
        \cup {File("ro", "compact", <<NameMember, PrivateTrue>>), Absent,
              File("eisdir", "", <<>>), File("rw", "invalid", <<>>),
              File("rw", "null", <<>>)}

UnitCodeqlFiles ==
    {File("rw", "text", t) : t \in CodeqlTexts(MaxLines)}
        \cup {Absent, File("eisdir", "", <<>>), File("ro", "text", NameKey \o <<" ", "d">>)}

\* lines of a workflow file
WorkflowLinePool == { <<" ", CheckoutV6>>,
                      <<" ", TodoAddToken>>,
                      <<" ", EnvAmbient>>,
                      <<" ", TodoUsePat>>,
                      <<" ", TokenAmbient>>,
                      <<" ", EnvAmbient, " ", TodoUsePat>>,
                      <<>> }

TagprTexts(n) == {join(ls) : ls \in UNION {[1..k -> WorkflowLinePool] : k \in 1..n}}

UnitTagprFiles == {File("rw", "text", t) : t \in TagprTexts(MaxWorkflowLines)}

DevPackage == File("rw", "compact", <<NameMember, VersionMember, PrivateTrue>>)
DevCodeql == File("rw", "text", NameKey \o <<" ", "d">>)
DevTagpr == File("rw", "text", TagprDevText(LatestActionVersions))

UnitTrees ==
    {Tree(BareTree, p, DevCodeql, DevTagpr, Absent) : p \in UnitPackageFiles}
        \cup {Tree(BareTree, DevPackage, c, DevTagpr, Absent) : c \in UnitCodeqlFiles}
        \cup {Tree(BareTree, DevPackage, DevCodeql, t, Absent) : t \in UnitTagprFiles}
        \cup {Tree(FullTree, DevPackage, DevCodeql, t, w) :
                  t \in RunTagprFiles, w \in RunPublishFiles}

UnitInit ==
    /\ fs \in UnitTrees
    /\ renderOk \in BOOLEAN
    /\ actionVersions \in ActionVersionSets
    /\ pc = "unit"
    /\ devcode = <<"str">> \o Placeholder
    /\ publishName \in Targets
    /\ loc = 1
    /\ active = {}
    /\ trace = <<>>
    /\ report = <<>>
    /\ err = ""
    /\ occurrences = <<>>
    /\ fsStart = fs
    /\ fsScan = fs
    /\ runs = 1
    /\ hist = <<>>

Applied(op, file, r, val) ==
    [op |-> op, file |-> file, ok |-> r.ok, msg |-> r.msg, before |-> fs, after |-> r.fs,
     val |-> val]

Apply(op, file, r, val) ==
    /\ pc = "unit"
    /\ Len(hist) < MaxApply
    /\ hist # <<>> => hist[Len(hist)].op = op
    /\ fs' = r.fs
    /\ hist' = Append(hist, Applied(op, file, r, val))
    /\ UNCHANGED <<pc, devcode, publishName, loc, active, trace, report, err,
                   occurrences, fsStart, fsScan, runs, renderOk,
                   actionVersions>>

ApplyPackageJson ==
    Apply("replaceInPackageJson", PackageJsonPath,
          replaceInPackageJson(fs, devcode, publishName),
          replaceInPackageJsonReturn(fs, devcode, publishName))

ApplyCodeqlConfig ==
    Apply("replaceInCodeqlConfig", CodeqlConfigPath,
          replaceInCodeqlConfig(fs, devcode, publishName), Undefined)

ApplyTagprWorkflow ==
    Apply("replaceInTagprWorkflow", TagprPath,
          replaceInTagprWorkflow(fs, devcode, publishName, actionVersions, renderOk),
          Undefined)

ApplyPublishWorkflow ==
    Apply("generatePublishWorkflow", PublishPath,
          generatePublishWorkflow(fs, actionVersions, renderOk), Undefined)

ApplyUpdateTagprWorkflow ==
    Apply("updateTagprWorkflow", TagprPath, updateTagprWorkflow(fs), Undefined)

ApplyUpdatePackageJson ==
    Apply("updatePackageJson", PackageJsonPath, updatePackageJson(fs, publishName),
          updatePackageJson(fs, publishName).val)

UnitNext ==
    \/ ApplyPackageJson
    \/ ApplyCodeqlConfig
    \/ ApplyTagprWorkflow
    \/ ApplyPublishWorkflow
    \/ ApplyUpdateTagprWorkflow
    \/ ApplyUpdatePackageJson

UnitSpec == UnitInit /\ [][UnitNext]_vars

\* ---------------------------------------------------- the scanner on its own
\* findUnmanagedOccurrences applied once to a tree whose files, managed or
\* not, hold the same text.
LongLine ==
    <<" ">> \o [i \in 1..(SnippetLength + 1) |-> IF i > SnippetLength THEN "d" ELSE "x"]

ScanLinePool == { <<"s", "e", "e", " ", "d">>,
                  <<" ", "\t", "d", " ", "d", " ">>,
                  <<"x">>,
                  <<"d", "e">>,
                  LongLine }

ScanTexts(n) == {join(ls) : ls \in UNION {[1..k -> ScanLinePool] : k \in 1..n}}

ScanPlaceholders == {<<"str", "d">>, <<"str", "d", "e">>}

\* which files exist: all, one, or all but a managed file, the lockfile or
\* the dependency below src
ScanPresent ==
    {Paths} \cup {{p} : p \in Paths}
        \cup {Paths \ {p} : p \in {PackageJsonPath, LockPath, DeepDepPath}}

\* how README.md and src/package.json can be read: README.md unreadable or a
\* directory, src a directory that cannot be listed
ScanStatuses == { <<"rw", "rw">>, <<"eacces", "rw">>, <<"eisdir", "rw">>,
                  <<"eacces", "unlisted">> }

ScanTrees ==
    {[p \in Paths |->
         IF p \notin present THEN Absent
         ELSE IF p = ReadmePath
         THEN File(sts[1], IF sts[1] = "eisdir" THEN "" ELSE "text",
                   IF sts[1] = "eisdir" THEN <<>> ELSE t)
         ELSE IF p = NestedPackageJsonPath THEN File(sts[2], "text", t)
         ELSE File("rw", "text", t)] :
        present \in ScanPresent, t \in ScanTexts(MaxLines), sts \in ScanStatuses}

ScanInit ==
    /\ fs \in ScanTrees
    /\ devcode \in ScanPlaceholders
    /\ renderOk = TRUE
    /\ actionVersions = LatestActionVersions
    /\ pc = "scanner"
    /\ publishName = <<"t">>
    /\ loc = 1
    /\ active = {}
    /\ trace = <<>>
    /\ report = <<>>
    /\ err = ""
    /\ occurrences = <<>>
    /\ fsStart = fs
    /\ fsScan = fs
    /\ runs = 1
    /\ hist = <<>>

ScanProject ==
    /\ pc = "scanner"
    /\ hist = <<>>
    /\ occurrences' = findUnmanagedOccurrences(fs, devcode)
    /\ fs' = afterScan(fs, devcode)
    /\ fsScan' = fs
    /\ hist' = <<[op |-> "findUnmanagedOccurrences", before |-> fs,
                  after |-> afterScan(fs, devcode), reads |-> scanReads(fs)]>>
    /\ UNCHANGED <<pc, devcode, publishName, loc, active, trace, report, err,
                   fsStart, runs, renderOk, actionVersions>>

ScanNext == ScanProject

ScanSpec == ScanInit /\ [][ScanNext]_vars

\* ------------------------------------------------- the version lookups
\* getLatestVersions(packageNames): one registry lookup per name, all started
\* together, each settling on its own. Here trace holds packageNames, active
\* the lookups in flight (positions of packageNames), report the lookups in
\* the order they settled, and hist the object `versions` they write to.
PackageNames == {"tsup", "vitest"}
Registry == [name \in PackageNames |-> IF name = "tsup" THEN <<"8.0.0">> ELSE <<"2.0.0">>]
Fallback == <<"latest">>
FetchError == "Failed to fetch version"

\* what the registry does with one request: a response with a version, a
\* response that is not ok, a rejected request, a response without version
FetchOutcomes == {"ok", "notok", "reject", "noversion"}

NameLists == UNION {[1..k -> PackageNames] : k \in 0..MaxNames}

getLatestVersion(packageName, fetched) ==
    CASE fetched = "ok" -> [ok |-> TRUE, val |-> Registry[packageName], msg |-> ""]
      [] fetched = "noversion" -> [ok |-> TRUE, val |-> Undefined, msg |-> ""]
      [] fetched = "notok" -> [ok |-> FALSE, val |-> Undefined, msg |-> FetchError]
      [] OTHER -> [ok |-> FALSE, val |-> Undefined, msg |-> "fetch failed"]

\* the lookup without its fallback: the error leaves getLatestVersions
catchLookupErrorRethrow(r) ==
    [val |-> r.val, rethrow |-> ~r.ok]

\* try { versions[name] = await getLatestVersion(name) } catch { 'latest' }
catchLookupError(r) ==
    [val |-> IF r.ok THEN r.val ELSE Fallback, rethrow |-> FALSE]

VersionsInit ==
    /\ trace \in NameLists
    /\ pc = "versions"
    /\ fs = BareTree
    /\ devcode = Undefined
    /\ publishName = <<>>
    /\ renderOk = TRUE
    /\ actionVersions = LatestActionVersions
    /\ loc = 1
    /\ active = {}
    /\ report = <<>>
    /\ err = ""
    /\ occurrences = <<>>
    /\ fsStart = fs
    /\ fsScan = fs
    /\ runs = 1
    /\ hist = <<>>

\* packageNames.map(async ...): every callback runs to its first await
RequestVersions ==
    /\ pc = "versions"
    /\ active' = 1..Len(trace)
    /\ pc' = "fetching"
    /\ UNCHANGED <<fs, devcode, publishName, loc, trace, report, err, occurrences,
                   fsStart, fsScan, runs, renderOk, actionVersions, hist>>

\* one callback resumes and writes its entry
SettleLookup ==
    /\ pc = "fetching"
    /\ \E i \in active, fetched \in FetchOutcomes :
          LET name == trace[i]
              c == catchLookupError(getLatestVersion(name, fetched))
          IN /\ active' = active \ {i}
             /\ report' = Append(report, [i |-> i, name |-> name, fetched |-> fetched])
             /\ hist' = IF c.rethrow THEN hist ELSE objSet(hist, name, c.val)
             /\ err' = IF c.rethrow THEN getLatestVersion(name, fetched).msg ELSE err
             /\ pc' = IF c.rethrow THEN "aborted" ELSE pc
    /\ UNCHANGED <<fs, devcode, publishName, loc, trace, occurrences, fsStart,
                   fsScan, runs, renderOk, actionVersions>>

\* Promise.all is fulfilled; return versions
ReturnVersions ==
    /\ pc = "fetching"
    /\ active = {}
    /\ pc' = "merged"
    /\ UNCHANGED <<fs, devcode, publishName, loc, active, trace, report, err,
                   occurrences, fsStart, fsScan, runs, renderOk, actionVersions, hist>>

VersionsNext ==
    \/ RequestVersions
    \/ SettleLookup
    \/ ReturnVersions

VersionsSpec == VersionsInit /\ [][VersionsNext]_vars

\* ------------------------------------------------- the project generator
\* generateProject(options). Here publishName holds options.projectName, loc
\* the step generateProject is at, trace the effects it has had so far
\* (lookup, render, mkdir, write) and err the name of the error it threw.
WordChars == {"a"}
NameChars == {"a", "-", ".", "/", "\\", "@", " ", "!"}
ProjectNames == UNION {[1..k -> NameChars] : k \in 0..MaxNameLen}

\* length of the match of /^@[\w-]+\// at the start of the name, 0 without
scopeLength(projectName) ==
    LET ends == {k \in 3..Len(projectName) :
                    /\ projectName[1] = "@"
                    /\ projectName[k] = "/"
                    /\ \A j \in 2..(k - 1) : projectName[j] \in WordChars \cup {"-"}}
    IN IF ends = {} THEN 0 ELSE CHOOSE k \in ends : TRUE

\* VALID_PROJECT_NAME_REGEX = /^(@[\w-]+\/)?[\w][\w.-]*[\w]$|^[\w]$/
VALID_PROJECT_NAME_REGEX(projectName) ==
    LET rest == SubSeq(projectName, scopeLength(projectName) + 1, Len(projectName))
    IN \/ /\ Len(rest) >= 2
          /\ rest[1] \in WordChars
          /\ rest[Len(rest)] \in WordChars
          /\ \A j \in 2..(Len(rest) - 1) : rest[j] \in WordChars \cup {".", "-"}
       \/ Len(projectName) = 1 /\ projectName[1] \in WordChars

validateProjectName(projectName) ==
    LET nameWithoutScope ==
            SubSeq(projectName, scopeLength(projectName) + 1, Len(projectName))
    IN IF projectName = <<>> \/ trim(projectName) = <<>>
       THEN [ok |-> FALSE, msg |-> "cannot be empty"]
       ELSE IF includes(nameWithoutScope, <<"/">>) \/ includes(nameWithoutScope, <<"\\">>)
       THEN [ok |-> FALSE, msg |-> "contains invalid path separators"]
       ELSE IF nameWithoutScope # <<>>
               /\ (nameWithoutScope[1] = "." \/ nameWithoutScope[Len(nameWithoutScope)] = ".")
       THEN [ok |-> FALSE, msg |-> "cannot start or end with a dot"]
       ELSE IF ~VALID_PROJECT_NAME_REGEX(projectName)
       THEN [ok |-> FALSE, msg |-> "contains invalid characters"]
       ELSE [ok |-> TRUE, msg |-> ""]

\* the generator with the validation after the lookup of the action versions
generateStepsValidateLate == <<"actions", "validate", "generate", "write">>

\* the statements of generateProject in their order
generateSteps == <<"validate", "actions", "generate", "write">>

GenerateInit ==
    /\ publishName \in ProjectNames
    /\ pc = "generating"
    /\ loc = 1
    /\ trace = <<>>
    /\ err = ""
    /\ fs = BareTree
    /\ devcode = Undefined
    /\ renderOk \in BOOLEAN
    /\ actionVersions = LatestActionVersions
    /\ active = {}
    /\ report = <<>>
    /\ occurrences = <<>>
    /\ fsStart = fs
    /\ fsScan = fs
    /\ runs = 1
    /\ hist = <<>>

atStep(step) == pc = "generating" /\ loc <= Len(generateSteps) /\ generateSteps[loc] = step

ValidateName ==
    /\ atStep("validate")
    /\ LET r == validateProjectName(publishName)
       IN /\ pc' = IF r.ok THEN pc ELSE "aborted"
          /\ err' = IF r.ok THEN err ELSE "ProjectNameError"
          /\ report' = IF r.ok THEN report ELSE <<r.msg>>
          /\ loc' = IF r.ok THEN loc + 1 ELSE loc
    /\ UNCHANGED <<fs, devcode, publishName, active, trace, occurrences, fsStart,
                   fsScan, runs, renderOk, actionVersions, hist>>

\* const actionVersions = await getLatestActionVersions()
LookupActionVersions ==
    /\ atStep("actions")
    /\ actionVersions' \in ActionVersionSets
    /\ trace' = Append(trace, "lookup")
    /\ loc' = loc + 1
    /\ UNCHANGED <<fs, pc, devcode, publishName, active, report, err, occurrences,
                   fsStart, fsScan, runs, renderOk, hist>>

\* Promise.all of the generate functions: the version lookups of
\* generatePackageJson, then the templates
GenerateFiles ==
    /\ atStep("generate")
    /\ trace' = trace \o <<"lookup", "render">>
    /\ pc' = IF renderOk THEN pc ELSE "aborted"
    /\ err' = IF renderOk THEN err ELSE "TemplateError"
    /\ loc' = IF renderOk THEN loc + 1 ELSE loc
    /\ UNCHANGED <<fs, devcode, publishName, active, report, occurrences, fsStart,
                   fsScan, runs, renderOk, actionVersions, hist>>

\* writeGeneratedFiles(outputDir, files)
WriteGeneratedFiles ==
    /\ atStep("write")
    /\ \E failure \in {"none", "mkdir", "write"} :
          /\ trace' = trace \o (IF failure = "mkdir" THEN <<"mkdir">>
                                  ELSE <<"mkdir", "write">>)
          /\ pc' = IF failure = "none" THEN "generated" ELSE "aborted"
          /\ err' = IF failure = "none" THEN err ELSE "FileWriteError"
    /\ loc' = loc + 1
    /\ UNCHANGED <<fs, devcode, publishName, active, report, occurrences, fsStart,
                   fsScan, runs, renderOk, actionVersions, hist>>

GenerateNext ==
    \/ ValidateName
    \/ LookupActionVersions
    \/ GenerateFiles
    \/ WriteGeneratedFiles

GenerateSpec == GenerateInit /\ [][GenerateNext]_vars

\* ------------------------------------------------------------------ claims
hasKey(body, k) == \E m \in Range(body) : m[1] = k
FalsyPrivate == {PrivateFalse, PrivateZero}

detected == pc \notin {"start", "detect"}
parsedDoc(file) == file.st \in {"rw", "ro"} /\ file.fmt \in {"compact", "pretty"}

\* C1: detection fails with the 'package.json not found' error when
\* package.json is absent, fails with the 'not a devcode project' error when
\* the document has no private member or a falsy one, and succeeds with the
\* document's name when private is true; the two errors differ.
C1_DetectContract ==
    detected =>
        LET file == fsStart[PackageJsonPath]
        IN /\ file.st = "absent" => pc = "aborted" /\ err = NotFound
           /\ (parsedDoc(file) /\ (~hasKey(file.body, "private")
                                    \/ Range(file.body) \cap FalsyPrivate # {})) =>
                 pc = "aborted" /\ err = NotDevcode
           /\ (parsedDoc(file) /\ PrivateTrue \in Range(file.body)) =>
                 /\ pc # "aborted" /\ err = ""
                 /\ NameMember \in Range(file.body) => devcode = <<"str">> \o Placeholder
                 /\ ~hasKey(file.body, "name") => devcode = Undefined
           /\ NotFound # NotDevcode

C1_Witness ==
    /\ pc = "managed" /\ loc = 1 /\ active = {}
    /\ devcode = <<"str">> \o Placeholder
    /\ PrivateTrue \in Range(fsStart[PackageJsonPath].body)

\* C2: when the run has aborted at detection, the project tree is the tree
\* the run started with.
C2_AbortLeavesTree == pc = "aborted" => fs = fsStart

C2_Witness ==
    /\ pc = "aborted" /\ err = NotDevcode
    /\ fs[CodeqlConfigPath].st = "rw" /\ fs[TagprPath].st = "rw"

running == pc \in {"managed", "publish", "scan", "report"}

\* the steps a run past detection still has to take
stepsLeft(p, l, a) ==
    CASE p = "managed" -> 2 * (Len(MANAGED_LOCATIONS) + 1 - l) + Cardinality(a) + 4
      [] p = "publish" -> (IF a = {} THEN 2 ELSE 1) + 2
      [] p = "scan" -> 2
      [] p = "report" -> 1
      [] OTHER -> 0

\* C3: a run whose detection succeeded always has a next step to take, no
\* step of it aborts or raises an error, and every step brings it closer to
\* Done: it reaches Done whatever the rewrites, the generation and the scan
\* do.
C3_DetectedRunsComplete ==
    /\ [](running => (canStartReplace \/ canFinishReplace \/ canStartPublish
                        \/ canFinishPublish \/ pc \in {"scan", "report"}))
    /\ [][running => /\ pc' \in {"managed", "publish", "scan", "report", "done"}
                     /\ err' = ""
                     /\ stepsLeft(pc', loc', active') < stepsLeft(pc, loc, active)]_vars

C3_Witness ==
    /\ pc = "done"
    /\ \E i \in 1..Len(report) : report[i].kind = "warn" /\ report[i].file = PackageJsonPath
    /\ \E i \in 1..Len(report) : report[i].kind = "warn" /\ report[i].file = PublishPath

threw(i) == \E k \in 1..Len(trace) :
                trace[k] = Event("end", MANAGED_LOCATIONS[i].file, <<"threw">>)
warned(i) == \E k \in 1..Len(report) :
                report[k].file = MANAGED_LOCATIONS[i].file /\ report[k].kind = "warn"
invoked(i) == \E k \in 1..Len(trace) :
                trace[k] = Event("start", MANAGED_LOCATIONS[i].file,
                                 <<devcode, publishName>>)

\* C4: a managed location whose strategy threw has a warning in the report,
\* and once the managed loop is left every later location of the registry
\* has been invoked with the same devcode and publish name.
C4_ThrowIsCaught ==
    \A i \in 1..Len(MANAGED_LOCATIONS) :
        threw(i) =>
            /\ warned(i)
            /\ pc # "managed" =>
                  \A j \in (i + 1)..Len(MANAGED_LOCATIONS) : invoked(j)

C4_Witness ==
    /\ pc = "done" /\ threw(1) /\ warned(1) /\ ~warned(2) /\ invoked(2) /\ invoked(3)

ExpectedOrder ==
    << <<"detect", <<"detect">> >>,
       <<"start", <<"package.json">> >>, <<"end", <<"package.json">> >>,
       <<"start", <<".github", "codeql", "codeql-config.yml">> >>,
       <<"end", <<".github", "codeql", "codeql-config.yml">> >>,
       <<"start", <<".github", "workflows", "tagpr.yml">> >>,
       <<"end", <<".github", "workflows", "tagpr.yml">> >>,
       <<"start", <<".github", "workflows", "publish.yml">> >>,
       <<"end", <<".github", "workflows", "publish.yml">> >>,
       <<"scan", <<"scan">> >>,
       <<"report", <<"report">> >> >>

\* C5: the steps of a run happen in the order detect, package.json,
\* codeql-config.yml, tagpr.yml, publish.yml, scan, report, each mutating
\* step ending before the next starts, and at most one is in flight.
C5_SequentialOrder ==
    /\ Len(trace) <= Len(ExpectedOrder)
    /\ \A k \in 1..Len(trace) :
          trace[k].ev = ExpectedOrder[k][1] /\ trace[k].step = ExpectedOrder[k][2]
    /\ Cardinality(active) <= 1

C5_Witness == pc = "done" /\ Len(trace) = Len(ExpectedOrder) /\ fs # fsStart

endsBefore(k) == Cardinality({j \in 1..(k - 1) : trace[j].ev = "end"})

\* C6: the scan starts after the three managed rewrites and the publish
\* generation have ended, the tree is not changed after the scan, and the
\* reported occurrences are those of the final tree.
C6_ScanSeesFinalTree ==
    /\ \A k \in 1..Len(trace) :
          trace[k].ev = "scan" =>
              endsBefore(k) = Len(MANAGED_LOCATIONS) + 1 /\ active = {}
    /\ pc \in {"report", "done"} =>
          fs = fsScan /\ occurrences = findUnmanagedOccurrences(fs, devcode)

C6_Witness ==
    /\ pc = "done" /\ Len(occurrences) > 0
    /\ fsStart[PublishPath].st = "absent" /\ fs[PublishPath].st = "rw"

\* ---- the strategies applied on their own
patched == {i \in 1..Len(hist) : hist[i].op = "replaceInPackageJson" /\ hist[i].ok}

keyAt(body, k) == CHOOSE i \in 1..Len(body) : body[i][1] = k
valueOf(body, k) == parseValue(body[keyAt(body, k)][2], memberText(body[keyAt(body, k)]))
otherKeys(body) == {body[i][1] : i \in 1..Len(body)} \ {"name", "private"}

nameIsTarget(body) == hasKey(body, "name") /\ valueOf(body, "name") = <<"str">> \o publishName
othersKept(old, new) ==
    /\ otherKeys(new) = otherKeys(old)
    /\ \A k \in otherKeys(old) : valueOf(new, k) = valueOf(old, k)
sameOrder(old, new, keys) ==
    \A k1, k2 \in keys :
        keyAt(old, k1) < keyAt(old, k2) <=> keyAt(new, k1) < keyAt(new, k2)

\* C7 as stated: the patched document is named T, has no private key, and
\* keeps every other key with its value and in the same relative order.
C7_AllKeysKeepOrder ==
    \A i \in patched :
        LET old == hist[i].before[PackageJsonPath].body
            new == hist[i].after[PackageJsonPath].body
        IN /\ nameIsTarget(new) /\ ~hasKey(new, "private")
           /\ othersKept(old, new)
           /\ sameOrder(old, new, otherKeys(old))

\* C7 amended: the patched document is named T, has no private key, and
\* keeps every other key with its value; the keys that are not array
\* indices keep their relative order, and the array indices come first in
\* ascending order.
C7_FieldPatch ==
    \A i \in patched :
        LET old == hist[i].before[PackageJsonPath].body
            new == hist[i].after[PackageJsonPath].body
        IN /\ nameIsTarget(new) /\ ~hasKey(new, "private")
           /\ othersKept(old, new)
           /\ sameOrder(old, new, otherKeys(old) \ IndexKeys)
           /\ \A k1, k2 \in otherKeys(new) \cap IndexKeys :
                 indexValue(k1) < indexValue(k2) => keyAt(new, k1) < keyAt(new, k2)
           /\ \A k1 \in otherKeys(new) \cap IndexKeys, k2 \in otherKeys(new) \ IndexKeys :
                 keyAt(new, k1) < keyAt(new, k2)

C7_Witness ==
    \E i \in patched :
        LET old == hist[i].before[PackageJsonPath].body
        IN /\ PrivateTrue \in Range(old) /\ NameMember \in Range(old)
           /\ keyAt(old, "name") > 1
           /\ otherKeys(old) # {}

\* C8: a second application of the field patch with the same target leaves
\* package.json, and the whole tree, as the first application left it, and
\* private stays absent.
C8_FieldPatchIdempotent ==
    \A i \in patched :
        (i + 1) \in patched =>
            /\ hist[i + 1].after = hist[i].after
            /\ ~hasKey(hist[i + 1].after[PackageJsonPath].body, "private")

C8_Witness ==
    \E i \in patched :
        /\ (i + 1) \in patched
        /\ hist[i].before[PackageJsonPath] # hist[i].after[PackageJsonPath]
        /\ hasKey(hist[i].before[PackageJsonPath].body, "private")

rewritten == {i \in 1..Len(hist) : hist[i].op = "replaceInCodeqlConfig" /\ hist[i].ok
                                    /\ hist[i].before[CodeqlConfigPath].st # "absent"}

\* C9: the line-anchored patch keeps the number of lines and changes no
\* line but the first one whose left-trimmed content starts with name:.
C9_ScopeContainment ==
    \A i \in rewritten :
        LET old == split(hist[i].before[CodeqlConfigPath].body)
            new == split(hist[i].after[CodeqlConfigPath].body)
        IN /\ Len(new) = Len(old)
           /\ \A n \in 1..Len(old) :
                 new[n] # old[n] =>
                    /\ startsWith(trimStart(old[n]), NameKey)
                    /\ \A m \in 1..(n - 1) : ~startsWith(trimStart(old[m]), NameKey)

C9_Witness ==
    \E i \in rewritten :
        LET old == split(hist[i].before[CodeqlConfigPath].body)
            new == split(hist[i].after[CodeqlConfigPath].body)
        IN /\ Len(old) = 2
           /\ includes(old[1], Placeholder) /\ new[1] = old[1]
           /\ new[2] # old[2]

missing(h) == h.before[h.file].st = "absent"
created(h) == {p \in Paths : h.before[p].st = "absent" /\ h.after[p].st # "absent"}
Managed == {"replaceInPackageJson", "replaceInCodeqlConfig", "replaceInTagprWorkflow"}

regenerated == {i \in 1..Len(hist) : /\ hist[i].op = "replaceInTagprWorkflow" /\ hist[i].ok
                                       /\ hist[i].before[TagprPath].st # "absent"}
patternRewritten == {i \in 1..Len(hist) : /\ hist[i].op = "updateTagprWorkflow" /\ hist[i].ok
                                            /\ hist[i].before[TagprPath].st # "absent"}
mentions(text, symbols) == \E k \in 1..Len(text) : text[k] \in symbols
count(text, symbols) == Cardinality({k \in 1..Len(text) : text[k] \in symbols})

C12_Regeneration ==
    \A i \in regenerated :
        LET rendering == loadTemplate("common/workflows/tagpr.yml.ejs", FALSE,
                                      actionVersions, TRUE).text
        IN /\ hist[i].after[TagprPath].body = rendering
           /\ \A p \in Paths \ {TagprPath} : hist[i].after[p] = hist[i].before[p]

C12_Witness ==
    \E i \in regenerated :
        /\ hist[i].before[TagprPath].body = <<" ", TokenAmbient>>
        /\ hist[i].after[TagprPath].body = TagprReleaseText([checkout |-> "v4"])
        /\ publishName = <<"s", "/", "d">>

\* ---- the scanner
scanned == pc = "scanner" /\ hist # <<>>
reported == {occurrences[k].file : k \in 1..Len(occurrences)}
readable(file) == file.st \in {"rw", "ro"}
holdsPlaceholder(file) ==
    \E n \in 1..Len(split(utf8(file))) : includes(split(utf8(file))[n], Tail(devcode))
ManagedPaths == { <<"package.json">>,
                  <<".github", "codeql", "codeql-config.yml">>,
                  <<".github", "workflows", "tagpr.yml">> }
PlainPaths == {ReadmePath, NestedPackageJsonPath, PublishPath}

\* C13: no occurrence is reported for a file at the path of a managed
\* location, whatever it holds, and a readable file that is neither managed
\* nor below an excluded directory is reported when a line of it holds the
\* placeholder.
C13_ManagedNeverReported ==
    scanned =>
        /\ reported \cap ManagedPaths = {}
        /\ \A p \in PlainPaths :
              (readable(fs[p]) /\ holdsPlaceholder(fs[p])) => p \in reported

C13_Witness ==
    /\ scanned
    /\ readable(fs[PackageJsonPath]) /\ holdsPlaceholder(fs[PackageJsonPath])
    /\ fs[NestedPackageJsonPath] = fs[PackageJsonPath]
    /\ fs[CodeqlConfigPath] = fs[PackageJsonPath] /\ fs[TagprPath] = fs[PackageJsonPath]
    /\ NestedPackageJsonPath \in reported /\ PackageJsonPath \notin reported

ExcludedNames == {"node_modules", ".git", "dist"}
LockfileName == "bun.lockb"
excluded(p) ==
    \/ \E n \in 1..(Len(p) - 1) : p[n] \in ExcludedNames
    \/ p[Len(p)] = LockfileName

\* C14: the scanner reads no file, and reports no occurrence in a file, that
\* lies below a directory named node_modules, .git or dist at any depth or
\* that is the lockfile bun.lockb; no managed location lies in that set.
C14_ExcludedNeverRead ==
    /\ scanned => \A p \in Range(hist[1].reads) \cup reported : ~excluded(p)
    /\ \A p \in ManagedPaths : ~excluded(p)

\* what holds of the excluded set: the files below the three directories
\* are neither read nor reported, the lockfile is read
C14_ExcludedDirsNeverRead ==
    /\ scanned =>
          /\ \A p \in Range(hist[1].reads) \cup reported :
                ~\E n \in 1..(Len(p) - 1) : p[n] \in ExcludedNames
          /\ fs[LockPath].st # "absent" => LockPath \in Range(hist[1].reads)
    /\ \A p \in ManagedPaths : ~excluded(p)

C14_Witness ==
    /\ scanned
    /\ \A p \in {DepPath, DeepDepPath, GitPath, DistPath} :
          readable(fs[p]) /\ holdsPlaceholder(fs[p]) /\ p \notin reported
    /\ LockPath \in reported

recordsOf(p, n) == {k \in 1..Len(occurrences) :
                        occurrences[k].file = p /\ occurrences[k].line = n}
indexIn(q, x) == CHOOSE k \in 1..Len(q) : q[k] = x
min(a, b) == IF a < b THEN a ELSE b

\* C15: for every file the scanner read and every line of it there is one
\* record if the line holds the placeholder and none otherwise; a record
\* carries the path below the root, the 1-based line number and the trimmed
\* line cut to 80 characters; records are in ascending line order within a
\* file and files in the order of the traversal.
C15_OneRecordPerLine ==
    scanned =>
        /\ \A p \in Paths :
              LET lines == split(utf8(fs[p]))
              IN IF p \in Range(hist[1].reads) /\ readable(fs[p])
                 THEN \A n \in 1..Len(lines) :
                         /\ Cardinality(recordsOf(p, n)) =
                                IF includes(lines[n], Tail(devcode)) THEN 1 ELSE 0
                         /\ \A k \in recordsOf(p, n) :
                               LET c == occurrences[k].content
                               IN /\ Len(c) = min(SnippetLength, Len(trim(lines[n])))
                                  /\ c = SubSeq(trim(lines[n]), 1, Len(c))
                 ELSE p \notin reported
        /\ \A k \in 1..Len(occurrences) :
              occurrences[k].line \in 1..Len(split(utf8(fs[occurrences[k].file])))
        /\ \A k, m \in 1..Len(occurrences) :
              k < m =>
                 IF occurrences[k].file = occurrences[m].file
                 THEN occurrences[k].line < occurrences[m].line
                 ELSE indexIn(hist[1].reads, occurrences[k].file)
                          < indexIn(hist[1].reads, occurrences[m].file)

C15_Witness ==
    /\ scanned
    /\ Cardinality(reported) >= 2
    /\ \E k \in 1..Len(occurrences) :
          /\ occurrences[k].line = 1 /\ occurrences[k].content = <<"d", " ", "d">>
    /\ \E k \in 1..Len(occurrences) :
          /\ occurrences[k].line = 2 /\ Len(occurrences[k].content) = SnippetLength
          /\ ~includes(occurrences[k].content, Tail(devcode))

\* C16: the scan leaves every file of the tree as it was: none is created,
\* written or deleted.
C16_ScanLeavesTree ==
    scanned => hist[1].after = hist[1].before /\ fs = hist[1].before

C16_Witness ==
    /\ scanned /\ Len(occurrences) >= 2 /\ Len(hist[1].reads) >= 2
    /\ \E p \in reported : fs[p].st = "rw"

\* ---- runs of prepareRelease
succeeded(rep, file) == \E k \in 1..Len(rep) : rep[k].file = file /\ rep[k].kind = "ok"
released == \E n \in 1..Len(hist) : succeeded(hist[n].report, PackageJsonPath)

\* C17: once a run has rewritten package.json with success, every later run
\* on the tree stops at the detection with the 'not a devcode project'
\* error, and no file differs from the tree that run started with.
C17_SecondRunRefused ==
    released =>
        /\ pc \in {"start", "detect", "aborted"}
        /\ pc = "aborted" => err = NotDevcode
        /\ fs = fsStart

C17_Witness ==
    /\ runs = 2 /\ released /\ pc = "aborted" /\ err = NotDevcode
    /\ hist[1].ended = "done"
    /\ ~hasKey(fs[PackageJsonPath].body, "private")

\* ---- a whole run
occurrencesOf(text, p) ==
    Cardinality({i \in 1..(Len(text) - Len(p) + 1) : SubSeq(text, i, i + Len(p) - 1) = p})
nameLines(text) == {n \in 1..Len(split(text)) : startsWith(trimStart(split(text)[n]), NameKey)}

\* the tree the scenario starts from: a private package.json named D, a
\* tagpr workflow with the ambient credential and marker comments, a codeql
\* configuration whose name line mentions D, no publish.yml
scenarioStart(f) ==
    /\ parsedDoc(f[PackageJsonPath])
    /\ PrivateTrue \in Range(f[PackageJsonPath].body)
    /\ NameMember \in Range(f[PackageJsonPath].body)
    /\ readable(f[TagprPath])
    /\ mentions(f[TagprPath].body, AmbientRefs) /\ mentions(f[TagprPath].body, TodoMarkers)
    /\ readable(f[CodeqlConfigPath])
    /\ \E n \in nameLines(f[CodeqlConfigPath].body) :
          includes(split(f[CodeqlConfigPath].body)[n], Placeholder)
    /\ f[PublishPath].st = "absent"

scenarioEnd ==
    /\ nameIsTarget(fs[PackageJsonPath].body) /\ ~hasKey(fs[PackageJsonPath].body, "private")
    /\ mentions(fs[TagprPath].body, NamedRefs)
    /\ ~mentions(fs[TagprPath].body, AmbientRefs) /\ ~mentions(fs[TagprPath].body, TodoMarkers)
    /\ includes(fs[CodeqlConfigPath].body, publishName)
    /\ ~includes(fs[CodeqlConfigPath].body, Placeholder)
    /\ fs[PublishPath].st # "absent"
    /\ occurrences = <<>>

entryOf(rep, file) == rep[CHOOSE k \in 1..Len(rep) : rep[k].file = file]
SuccessLine(file) == [file |-> file, kind |-> "ok", msg |-> ""]

\* the run started without codeql-config.yml and with a private, writable
\* package.json and a writable tagpr.yml, and the templates render
configMissing ==
    /\ fsStart[CodeqlConfigPath].st = "absent"
    /\ fsStart[PackageJsonPath].st = "rw" /\ parsedDoc(fsStart[PackageJsonPath])
    /\ PrivateTrue \in Range(fsStart[PackageJsonPath].body)
    /\ fsStart[TagprPath].st = "rw"
    /\ renderOk

\* C19 as stated: such a run, once past the detection, reaches Done with a
\* success for package.json and tagpr.yml, and its entry for
\* codeql-config.yml is neither a warning nor the entry of a rewrite that
\* changed the file.
C19_NoOpReportedApart ==
    /\ (configMissing /\ runs = 1) => pc # "aborted"
    /\ (configMissing /\ runs = 1 /\ pc = "done") =>
          /\ succeeded(report, PackageJsonPath) /\ succeeded(report, TagprPath)
          /\ entryOf(report, CodeqlConfigPath).kind # "warn"
          /\ entryOf(report, CodeqlConfigPath) # SuccessLine(CodeqlConfigPath)

\* C19 amended: such a run reaches Done with a success for package.json and
\* tagpr.yml; its entry for codeql-config.yml is the success line, the same
\* as for a rewrite that changed the file, and the file is not created.
C19_NoOpReportedAsSuccess ==
    /\ (configMissing /\ runs = 1) => pc # "aborted"
    /\ (configMissing /\ runs = 1 /\ pc = "done") =>
          /\ succeeded(report, PackageJsonPath) /\ succeeded(report, TagprPath)
          /\ entryOf(report, CodeqlConfigPath) = SuccessLine(CodeqlConfigPath)
          /\ fs[CodeqlConfigPath].st = "absent"

C19_Witness ==
    /\ configMissing /\ runs = 1 /\ pc = "done"
    /\ report[2] = SuccessLine(CodeqlConfigPath)
    /\ fs[CodeqlConfigPath].st = "absent"
    /\ fs[PackageJsonPath] # fsStart[PackageJsonPath] /\ fs[TagprPath] # fsStart[TagprPath]

endOf(file) == CHOOSE k \in 1..Len(trace) : trace[k].ev = "end" /\ trace[k].step = file

\* C20: at Done the report holds one entry per managed location in the order
\* of the registry and then the entry of publish.yml; an entry is a warning
\* with the message of the error when the step threw and a success
\* otherwise; the occurrences are printed after these entries, and the
\* reminder of the PAT_FOR_TAGPR secret closes the run.
C20_ReportShape ==
    pc = "done" =>
        /\ Len(report) = Len(MANAGED_LOCATIONS) + 1
        /\ \A i \in 1..Len(MANAGED_LOCATIONS) : report[i].file = MANAGED_LOCATIONS[i].file
        /\ report[Len(report)].file = PublishPath
        /\ \A i \in 1..Len(report) :
              IF trace[endOf(report[i].file)].args = <<"threw">>
              THEN report[i].kind = "warn" /\ report[i].msg # ""
              ELSE report[i] = SuccessLine(report[i].file)
        /\ \E k \in 1..Len(trace) :
              /\ trace[k].ev = "scan" /\ trace[k].args = occurrences
              /\ \A i \in 1..Len(report) : endOf(report[i].file) < k
        /\ trace[Len(trace)].ev = "report"
        /\ ReminderLine \in Range(trace[Len(trace)].args)

C20_Witness ==
    /\ pc = "done" /\ Len(report) = 4
    /\ report[1].kind = "ok" /\ report[2].kind = "warn" /\ report[2].msg = "EISDIR"
    /\ report[3].kind = "ok" /\ report[4].kind = "warn"
    /\ Len(occurrences) > 0

\* ---- the value the field patch returns
fieldPatched == {i \in 1..Len(hist) :
                    /\ hist[i].op \in {"replaceInPackageJson", "updatePackageJson"}
                    /\ hist[i].ok}
nameBefore(h) == objGet(JSONparse(h.before[PackageJsonPath].body), "name")

lookupsOf(name) == {k \in 1..Len(report) : report[k].name = name}
entryFor(fetched, name) ==
    CASE fetched = "ok" -> IF name = "tsup" THEN <<"8.0.0">> ELSE <<"2.0.0">>
      [] fetched = "noversion" -> <<"undef">>
      [] OTHER -> <<"latest">>

\* C22: getLatestVersions does not fail, whatever lookups fail and in
\* whatever order they complete, and the mapping it returns has exactly one
\* entry for each requested name: the fetched version when the lookup of that
\* name succeeded, 'latest' when it failed (for a name requested twice, the
\* outcome of the lookup of it that settled last).
C22_LookupsMerge ==
    /\ pc # "aborted" /\ err = ""
    /\ pc = "merged" =>
          /\ Range(objKeys(hist)) = Range(trace)
          /\ Len(hist) = Cardinality(Range(trace))
          /\ \A name \in Range(trace) :
                LET last == CHOOSE k \in lookupsOf(name) :
                                \A j \in lookupsOf(name) : j <= k
                IN objGet(hist, name) = entryFor(report[last].fetched, name)

C22_Witness ==
    /\ pc = "merged" /\ trace = <<"tsup", "vitest">>
    /\ report[1].i = 2 /\ report[1].fetched = "ok"
    /\ report[2].i = 1 /\ report[2].fetched = "notok"
    /\ hist = <<<<"vitest", "2.0.0">>, <<"tsup", "latest">>>>

\* ---- the project generator
unscoped(name) == SubSeq(name, scopeLength(name) + 1, Len(name))
has(name, chars) == \E i \in 1..Len(name) : name[i] \in chars
namedInvalid(name) ==
    \/ name = <<>>
    \/ has(unscoped(name), {"/", "\\"})
    \/ unscoped(name) # <<>> /\ "." \in {unscoped(name)[1], unscoped(name)[Len(unscoped(name))]}
    \/ has(unscoped(name), {" ", "!", "@"})

\* C23: a project name that is empty, has a path separator outside the scope
\* prefix, starts or ends with a dot or has an invalid character is rejected
\* by validateProjectName, and generateProject with a rejected name fails
\* with ProjectNameError before any version lookup, template rendering,
\* directory creation or file write.
C23_RejectedBeforeEffects ==
    /\ namedInvalid(publishName) => ~validateProjectName(publishName).ok
    /\ ~validateProjectName(publishName).ok =>
          /\ trace = <<>>
          /\ pc \in {"generating", "aborted"}
          /\ pc = "aborted" => err = "ProjectNameError"
          /\ pc = "generating" => loc = 1

C23_Witness ==
    /\ pc = "aborted" /\ err = "ProjectNameError"
    /\ publishName = <<"@", "a", "/", ".">>
    /\ trace = <<>>

\* ---- the line-anchored patch on its own
lineAnchored == {i \in 1..Len(hist) : /\ hist[i].op = "replaceInCodeqlConfig"
                                        /\ hist[i].before[CodeqlConfigPath].st = "rw"}

\* C24: on a codeql-config.yml that exists and has no line whose left-trimmed
\* content starts with name:, the line-anchored patch succeeds and leaves the
\* file with exactly the content it had, whatever the target is and however
\* often the placeholder occurs in the file.
C24_NoNameLineIdentity ==
    \A i \in lineAnchored :
        nameLines(hist[i].before[CodeqlConfigPath].body) = {} =>
            /\ hist[i].ok
            /\ hist[i].after[CodeqlConfigPath] = hist[i].before[CodeqlConfigPath]
            /\ hist[i].after = hist[i].before

C24_Witness ==
    \E i \in lineAnchored :
        LET old == hist[i].before[CodeqlConfigPath].body
        IN /\ nameLines(old) = {}
           /\ occurrencesOf(old, Placeholder) = 2
           /\ mentions(old, {NL})
           /\ publishName = <<"s", "/", "d">>
           /\ hist[i].after[CodeqlConfigPath].body = old

\* ---- the placeholder of a run
placeholderOfRun == detectDevcode(fsStart).val
handedOver == {k \in 1..Len(trace) : trace[k].ev = "start" /\ trace[k].step # PublishPath}
carried(f) == IF parsedDoc(f[PackageJsonPath])
              THEN objGet(JSONparse(f[PackageJsonPath].body), "name")
              ELSE Undefined

\* C25: the placeholder is the name package.json carried when the run
\* started: every managed strategy is handed that value with the one target
\* of the run, and the scanner searches for that value, whatever package.json
\* carries by then.
C25_OnePlaceholderPerRun ==
    pc \in {"managed", "publish", "scan", "report", "done"} =>
        /\ devcode = placeholderOfRun
        /\ \A k \in handedOver : trace[k].args = <<placeholderOfRun, publishName>>
        /\ pc \in {"report", "done"} =>
              occurrences = findUnmanagedOccurrences(fsScan, placeholderOfRun)

C25_Witness ==
    /\ pc = "done"
    /\ placeholderOfRun = <<"str">> \o Placeholder
    /\ carried(fsScan) = <<"str">> \o publishName
    /\ Cardinality(handedOver) = Len(MANAGED_LOCATIONS)
    /\ fsStart[CodeqlConfigPath] # fs[CodeqlConfigPath]
    /\ occurrences # <<>>

\* ---- read errors of the scanner
unlistable(p) == \E q \in Paths :
                    /\ fs[q].st = "unlisted"
                    /\ Len(q) <= Len(p)
                    /\ SubSeq(q, 1, Len(q) - 1) = SubSeq(p, 1, Len(q) - 1)
failing(p) == fs[p].st = "eacces" \/ unlistable(p)
withoutFailing == [p \in Paths |-> IF failing(p) THEN [st |-> "absent", fmt |-> "", body |-> <<>>]
                                   ELSE fs[p]]

\* C26: a file whose read fails, and a file below a directory whose listing
\* fails, contributes no record; the scan returns, and its records are those
\* of the tree without these files: every other file that is readable,
\* unmanaged and outside the excluded directories is reported when a line
\* of it holds the placeholder.
C26_ReadErrorsLocal ==
    scanned =>
        /\ err = ""
        /\ \A p \in Paths : failing(p) => p \notin reported
        /\ \A p \in Paths : unlistable(p) => p \notin Range(hist[1].reads)
        /\ (\E p \in Paths : failing(p)) =>
              occurrences = findUnmanagedOccurrences(withoutFailing, devcode)
        /\ \A p \in {ReadmePath, LockPath, NestedPackageJsonPath, PublishPath} :
              (readable(fs[p]) /\ ~failing(p) /\ holdsPlaceholder(fs[p])) => p \in reported

C26_Witness ==
    /\ scanned
    /\ fs[ReadmePath].st = "eacces" /\ holdsPlaceholder(fs[ReadmePath])
    /\ fs[NestedPackageJsonPath].st = "unlisted" /\ holdsPlaceholder(fs[NestedPackageJsonPath])
    /\ reported = {LockPath, PublishPath}

\* ---- the errors of the detection
metadata == fsStart[PackageJsonPath]
notDevelopment ==
    /\ parsedDoc(metadata)
    /\ (~hasKey(metadata.body, "private") \/ Range(metadata.body) \cap FalsyPrivate # {})

\* C27 as stated: whenever the detection fails, its error is one of the two
\* precondition errors, package.json not found or not a devcode project.
C27_TwoKindsOnly ==
    pc = "aborted" => err \in {NotFound, NotDevcode}

\* C27 amended: the detection fails with the not-found error exactly when
\* package.json is absent and with the not-a-devcode error exactly when the
\* parsed document has no truthy private member; a package.json that cannot
\* be read for another reason fails with the error of the read, one that is
\* not valid JSON with the SyntaxError of the parser, one that holds null
\* with a TypeError; in each case the tree is left as it was.
C27_DetectionErrors ==
    pc = "aborted" =>
        /\ err = NotFound <=> metadata.st = "absent"
        /\ err = NotDevcode <=> notDevelopment
        /\ metadata.st = "eisdir" => err = "EISDIR"
        /\ (metadata.st = "rw" /\ metadata.fmt = "invalid") => err = "SyntaxError"
        /\ (metadata.st = "rw" /\ metadata.fmt = "null") => err = "TypeError"
        /\ fs = fsStart

C27_Witness ==
    /\ pc = "aborted" /\ err = "SyntaxError"
    /\ metadata.fmt = "invalid" /\ runs = 1
    /\ trace # <<>> /\ trace[Len(trace)].ev = "detect"

\* ---- the summary of a run
announced == Range(trace[Len(trace)].args)
warnedFor(file) == \E k \in 1..Len(report) : report[k].file = file /\ report[k].kind = "warn"

\* C28: in a run that reaches Done the summary announces the renaming of the
\* package and the removal of the private flag only if the rewrite of
\* package.json succeeded, the workflows using PAT_FOR_TAGPR only if the
\* rewrite of tagpr.yml succeeded, and the generation of publish.yml only if
\* it succeeded: a step recorded as a warning is not announced as done.
C28_SummaryTruthful ==
    pc = "done" =>
        /\ RenamedLine \in announced => succeeded(report, PackageJsonPath)
        /\ PrivateRemovedLine \in announced => succeeded(report, PackageJsonPath)
        /\ WorkflowsLine \in announced => succeeded(report, TagprPath)
        /\ PublishLine \in announced => succeeded(report, PublishPath)

C28_Witness ==
    /\ pc = "done"
    /\ warnedFor(PackageJsonPath) /\ warnedFor(PublishPath)
    /\ fs[PackageJsonPath] = fsStart[PackageJsonPath]
    /\ PrivateTrue \in Range(fs[PackageJsonPath].body)
    /\ fs[PublishPath].st = "absent"
    /\ {RenamedLine, PrivateRemovedLine, PublishLine} \subseteq announced

\* ---- the occurrences on the name line
firstName(text) == CHOOSE n \in nameLines(text) : \A m \in nameLines(text) : n <= m
nameLinePatched ==
    {i \in rewritten :
        LET old == hist[i].before[CodeqlConfigPath].body
        IN /\ nameLines(old) # {}
           /\ includes(split(old)[firstName(old)], Placeholder)
           /\ ~includes(publishName, Placeholder)}

\* C29: after the line-anchored patch of a file whose first name: line holds
\* the placeholder D, with a target T that does not contain D, that line
\* holds T and no occurrence of D, however often D occurred on it.
C29_NoPlaceholderLeft ==
    \A i \in nameLinePatched :
        LET old == hist[i].before[CodeqlConfigPath].body
            line == split(hist[i].after[CodeqlConfigPath].body)[firstName(old)]
        IN includes(line, publishName) /\ ~includes(line, Placeholder)

C29_Witness ==
    \E i \in nameLinePatched :
        LET old == hist[i].before[CodeqlConfigPath].body
            line == split(hist[i].after[CodeqlConfigPath].body)[firstName(old)]
        IN /\ occurrencesOf(split(old)[firstName(old)], Placeholder) = 2
           /\ line = <<" ">> \o NameKey \o <<" ", "t", " ", "d">>

\* ---- the line-anchored patch applied twice
twice == {i \in rewritten : (i + 1) \in rewritten}

\* C30: for every codeql-config.yml, placeholder D and target T, the target
\* @scope/D that contains D among them, a second application of the
\* line-anchored patch with (D, T) leaves the file as the first one left it.
C30_LinePatchIdempotent ==
    \A i \in twice : hist[i + 1].after[CodeqlConfigPath] = hist[i].after[CodeqlConfigPath]

C30_Witness ==
    \E i \in twice :
        /\ publishName = <<"s", "/", "d">>
        /\ hist[i].before[CodeqlConfigPath].body = NameKey \o <<" ", "d">>
        /\ hist[i].after[CodeqlConfigPath].body = NameKey \o <<" ", "s", "/", "d">>
        /\ hist[i + 1].after[CodeqlConfigPath].body = NameKey \o <<" ", "s", "/", "s", "/", "d">>

====
